---- MODULE Spec2Model ----
(***************************************************************************)
(* preprocessing/lda.py: the command line script that builds the LDA       *)
(* dictionary, trains the LDA model on word windows, lists the topics and  *)
(* tests the model on a sentence.                                          *)
(*                                                                         *)
(* The gensim objects are modelled by what the script does with them: a    *)
(* Dictionary is the sequence of batches handed to add_documents plus the  *)
(* filtered/compacted marks, an LdaMulticore model is the sequence of      *)
(* batches handed to update.  An article or a window is named by its       *)
(* position in the stream (1, 2, ...); its token list / bag of words is    *)
(* named by the same number.  The progress prints of the loops are left    *)
(* out of the event log; the usage hint, the length-mismatch message and   *)
(* the printed results are in it.                                          *)
(*                                                                         *)
(* The script is Python 2 (dfs.iteritems(), str.decode): --sentence is a   *)
(* byte string.  Reading the corpus, an update and a save may raise at any *)
(* time; a load raises when the file is absent or truncated.               *)
(*                                                                         *)
(* The module level numbers of the script (100000 articles, 1000 per       *)
(* batch, 1000000 windows, 25000 per update) and LDA_WINDOW_SIZE of        *)
(* config.py are state here, drawn in Init from small ranges, so that      *)
(* every statement is checked for every cap and every threshold within     *)
(* the bounds.                                                             *)
(***************************************************************************)
EXTENDS Integers, Sequences, FiniteSets, TLC

VARIABLES
    config,        \* the capitalised constants and the two update_every_n_* locals
    corpus,        \* [articles, windows]: lengths of the two streams
    disk,          \* path -> file content
    args,          \* argparse result of the running invocation
    pc,            \* position of the control thread
    error,         \* the exception that ended the run, or NoError
    i,             \* enumerate() index of the running loop (-1: nothing read yet)
    articles_str,  \* generate_dictionary: the batch being accumulated
    dictionary,    \* the Dictionary object in memory
    examples,      \* train_lda: the batch being accumulated
    lda_model,     \* the LdaMulticore object in memory
    sentence,      \* test_lda: the token list the argument is rebound to
    trace,         \* event log of the running invocation
    history        \* operations that ran to completion, over all invocations

vars == <<config, corpus, disk, args, pc, error, i, articles_str, dictionary,
          examples, lda_model, sentence, trace, history>>

(***************************************************************************)
(* Bounds of the model.                                                    *)
(***************************************************************************)
MaxArticles == 6
MaxWindows == 5
MaxCount == 3
MaxBatch == 2
MaxWindowSize == 2
MaxSentenceLen == 4

(***************************************************************************)
(* Names.                                                                  *)
(***************************************************************************)
LDA_DICTIONARY_FILEPATH == "lda_dictionary"
LDA_MODEL_FILEPATH == "lda_model"
Paths == {LDA_DICTIONARY_FILEPATH, LDA_MODEL_FILEPATH}

COUNT_EXAMPLES_FOR_DICTIONARY == config.COUNT_EXAMPLES_FOR_DICTIONARY
COUNT_EXAMPLES_FOR_LDA == config.COUNT_EXAMPLES_FOR_LDA
LDA_WINDOW_SIZE == config.LDA_WINDOW_SIZE
update_every_n_articles == config.update_every_n_articles
update_every_n_windows == config.update_every_n_windows

Operations == <<"generate_dictionary", "train_lda", "show_topics", "test_lda">>

NoError == "none"
None == [isNone |-> TRUE, bytes |-> <<>>]
Str(b) == [isNone |-> FALSE, bytes |-> b]

Absent == [kind |-> "absent"]
Corrupt == [kind |-> "corrupt"]
Unbound == [kind |-> "unbound"]

(***************************************************************************)
(* Strings.  The --sentence argument is a byte string.  The alphabet has a *)
(* lower and an upper case letter, the space, the tab (white space that    *)
(* strip() removes and split(" ") does not split on) and the two bytes of  *)
(* the UTF-8 encoding of one non-ASCII letter: together they decode to one *)
(* character, apart they are no UTF-8 and decode() raises.                 *)
(***************************************************************************)
Space == " "
Tab == "\t"
LeadByte == "0xC3"
ContByte == "0xA9"
Alphabet == {"a", "A", Space, Tab, LeadByte, ContByte}
Whitespace == {Space, Tab}

RECURSIVE SeqsUpTo(_, _)
SeqsUpTo(S, n) ==
    IF n = 0 THEN {<<>>}
    ELSE LET shorter == SeqsUpTo(S, n - 1)
         IN  shorter \cup {Append(s, c) : s \in {t \in shorter : Len(t) = n - 1}, c \in S}

RECURSIVE Decodable(_)
Decodable(b) ==
    IF b = <<>> THEN TRUE
    ELSE IF Head(b) = LeadByte
         THEN Len(b) >= 2 /\ b[2] = ContByte /\ Decodable(SubSeq(b, 3, Len(b)))
    ELSE IF Head(b) = ContByte THEN FALSE
    ELSE Decodable(Tail(b))

RECURSIVE decode(_)
decode(b) ==
    IF b = <<>> THEN <<>>
    ELSE IF Head(b) = LeadByte THEN <<"e'">> \o decode(SubSeq(b, 3, Len(b)))
    ELSE <<Head(b)>> \o decode(Tail(b))

lower(s) == [k \in 1..Len(s) |-> IF s[k] = "A" THEN "a" ELSE s[k]]

RECURSIVE lstrip(_)
lstrip(s) ==
    IF s # <<>> /\ Head(s) \in Whitespace THEN lstrip(Tail(s)) ELSE s

RECURSIVE rstrip(_)
rstrip(s) ==
    IF s # <<>> /\ s[Len(s)] \in Whitespace THEN rstrip(SubSeq(s, 1, Len(s) - 1)) ELSE s

strip(s) == rstrip(lstrip(s))

RECURSIVE split_wsruns(_)
split_wsruns(s) ==
    LET t == lstrip(s)
        ends == {k \in 1..Len(t) : t[k] \in Whitespace}
    IN  IF t = <<>> THEN <<>>
        ELSE IF ends = {} THEN <<t>>
        ELSE LET k == CHOOSE x \in ends : \A y \in ends : x <= y
             IN  <<SubSeq(t, 1, k - 1)>> \o split_wsruns(SubSeq(t, k + 1, Len(t)))

RECURSIVE split(_)
split(s) ==
    LET at == {k \in 1..Len(s) : s[k] = Space}
    IN  IF at = {} THEN <<s>>
        ELSE LET k == CHOOSE x \in at : \A y \in at : x <= y
             IN  <<SubSeq(s, 1, k - 1)>> \o split(SubSeq(s, k + 1, Len(s)))

Tokenize(b) == split(strip(lower(decode(b))))

SentenceMissing_NoneOnly(s) == s.isNone

SentenceMissing(s) == s.isNone \/ Len(s.bytes) < 1

LengthMismatch(tokens) == Len(tokens) # LDA_WINDOW_SIZE

(***************************************************************************)
(* The gensim objects, as far as the script uses them.                     *)
(***************************************************************************)
NewDictionary ==
    [kind |-> "dictionary", batches |-> <<>>, filtered |-> FALSE, compacted |-> FALSE]

add_documents(d, docs) == [d EXCEPT !.batches = Append(@, docs)]

filter_tokens(d) == [d EXCEPT !.filtered = TRUE]

compactify(d) == [d EXCEPT !.compacted = TRUE]

NewLdaModel == [kind |-> "lda", updates |-> <<>>]

update(m, corpus_chunk) == [m EXCEPT !.updates = Append(@, corpus_chunk)]

\* Dictionary.load / LdaMulticore.load succeed on a file of the right kind only.
Loadable(path, kind) == disk[path].kind = kind

(***************************************************************************)
(* The event log of one invocation.                                        *)
(***************************************************************************)
Call(op) == <<"call", op>>
Return(op) == <<"return", op>>
Load(path) == <<"load", path>>
Doc2Bow(op) == <<"doc2bow", op>>
Query(op) == <<"query", op>>
PrintOut(what) == <<"print", what>>

Events == {trace[k] : k \in 1..Len(trace)}

(***************************************************************************)
(* main(), lines 28-56.                                                    *)
(***************************************************************************)
\* --sentence values tried on the command line: absent, empty, one token, two tokens.
CliSentences == {None, Str(<<>>), Str(<<"a">>), Str(<<"A", Space, "a">>)}

ArgSpace(sentences) ==
    [dict : BOOLEAN, train : BOOLEAN, topics : BOOLEAN, test : BOOLEAN,
     sentence : sentences]

\* Where main() is while `op` runs, and where it goes on when `op` returns.
MainAfter_Elif(op) ==
    CASE op = "parse_args" -> "main_dict"
      [] OTHER -> "main_hint"

MainAfter(op) ==
    CASE op = "parse_args" -> "main_dict"
      [] op = "generate_dictionary" -> "main_train"
      [] op = "train_lda" -> "main_topics"
      [] op = "show_topics" -> "main_test"
      [] op = "test_lda" -> "main_hint"

\* An exception raised inside `op`: nothing catches it, the process ends.
Propagate_Caught(op, e) ==
    /\ pc' = MainAfter(op)
    /\ error' = e

Propagate(op, e) ==
    /\ pc' = "failed"
    /\ error' = e

Locals == <<i, articles_str, dictionary, examples, lda_model, sentence>>

FreshLocals ==
    /\ i' = -1
    /\ articles_str' = <<>>
    /\ dictionary' = Unbound
    /\ examples' = <<>>
    /\ lda_model' = Unbound
    /\ sentence' = <<>>

\* A new process: argparse, lines 32-43.
ParseArgs ==
    /\ pc \in {"start", "exit", "failed"}
    /\ \E a \in ArgSpace(CliSentences) : args' = a
    /\ pc' = MainAfter("parse_args")
    /\ error' = NoError
    /\ trace' = <<>>
    /\ FreshLocals
    /\ UNCHANGED <<config, corpus, disk, history>>

\* if args.dict: generate_dictionary(), lines 46-47 and 60-68.
MainDict ==
    /\ pc = "main_dict"
    /\ IF args.dict
       THEN /\ pc' = "gd_loop"
            /\ trace' = Append(trace, Call("generate_dictionary"))
            /\ i' = -1
            /\ articles_str' = <<>>
            /\ dictionary' = NewDictionary
       ELSE /\ pc' = MainAfter("generate_dictionary")
            /\ UNCHANGED <<trace, i, articles_str, dictionary>>
    /\ UNCHANGED <<config, corpus, disk, args, error, examples, lda_model, sentence, history>>

(***************************************************************************)
(* generate_dictionary(), lines 58-97.                                     *)
(***************************************************************************)
\* line 73
DictFlushDue(batch) == Len(batch) >= update_every_n_articles

\* line 78
DictCapReached(idx) == idx > COUNT_EXAMPLES_FOR_DICTIONARY

DictionarySavePath == LDA_DICTIONARY_FILEPATH

\* A failed write leaves the old file or a truncated one.
FailedWrite(path) ==
    \/ disk' = disk
    \/ disk' = [disk EXCEPT ![path] = Corrupt]

\* One pass of the for loop, lines 71-80; the stream is 0-based as enumerate() is.
GdIterate ==
    /\ pc = "gd_loop"
    /\ \/ \* the stream is exhausted
          /\ i + 1 >= corpus.articles
          /\ pc' = "gd_rest"
          /\ UNCHANGED <<error, i, articles_str, dictionary>>
       \/ \* reading the corpus fails
          /\ Propagate("generate_dictionary", "IOError")
          /\ UNCHANGED <<i, articles_str, dictionary>>
       \/ \* the next article
          /\ i + 1 < corpus.articles
          /\ LET idx == i + 1
                 batch == Append(articles_str, idx + 1)
             IN  /\ i' = idx
                 /\ IF DictFlushDue(batch)
                    THEN /\ dictionary' = add_documents(dictionary, batch)
                         /\ articles_str' = <<>>
                    ELSE /\ articles_str' = batch
                         /\ UNCHANGED dictionary
                 /\ pc' = IF DictCapReached(idx) THEN "gd_rest" ELSE "gd_loop"
          /\ UNCHANGED error
    /\ UNCHANGED <<config, corpus, disk, args, examples, lda_model, sentence, trace, history>>

GdRemainder_Dropped ==
    /\ pc = "gd_rest"
    /\ pc' = "gd_filter"
    /\ UNCHANGED <<config, corpus, disk, args, error, i, articles_str, dictionary,
                   examples, lda_model, sentence, trace, history>>

\* lines 82-84
GdRemainder ==
    /\ pc = "gd_rest"
    /\ dictionary' = IF Len(articles_str) > 0
                     THEN add_documents(dictionary, articles_str)
                     ELSE dictionary
    /\ pc' = "gd_filter"
    /\ UNCHANGED <<config, corpus, disk, args, error, i, articles_str,
                   examples, lda_model, sentence, trace, history>>

\* lines 88-93
GdFilter ==
    /\ pc = "gd_filter"
    /\ dictionary' = compactify(filter_tokens(dictionary))
    /\ pc' = "gd_save"
    /\ UNCHANGED <<config, corpus, disk, args, error, i, articles_str,
                   examples, lda_model, sentence, trace, history>>

\* lines 95-97, and the return to main()
GdSave ==
    /\ pc = "gd_save"
    /\ \/ /\ disk' = [disk EXCEPT ![DictionarySavePath] = dictionary]
          /\ pc' = MainAfter("generate_dictionary")
          /\ trace' = Append(trace, Return("generate_dictionary"))
          /\ history' = history \cup {"generate_dictionary"}
          /\ UNCHANGED error
       \/ /\ FailedWrite(DictionarySavePath)
          /\ Propagate("generate_dictionary", "IOError")
          /\ UNCHANGED <<trace, history>>
    /\ UNCHANGED <<config, corpus, args, i, articles_str, dictionary,
                   examples, lda_model, sentence>>

(***************************************************************************)
(* train_lda(), lines 99-148.                                              *)
(***************************************************************************)
LdaFlushDue_Gt(batch) == Len(batch) > update_every_n_windows

\* line 131
LdaFlushDue(batch) == Len(batch) >= update_every_n_windows

LdaCapReached_Never(idx) == FALSE

\* line 136
LdaCapReached(idx) == idx >= COUNT_EXAMPLES_FOR_LDA

ModelSavePath_Dictionary == LDA_DICTIONARY_FILEPATH

ModelSavePath == LDA_MODEL_FILEPATH

\* if args.train: train_lda(), lines 48-49
MainTrain ==
    /\ pc = "main_train"
    /\ IF args.train
       THEN /\ pc' = "tl_load"
            /\ trace' = Append(trace, Call("train_lda"))
       ELSE /\ pc' = MainAfter("train_lda")
            /\ UNCHANGED trace
    /\ UNCHANGED <<config, corpus, disk, args, error, i, articles_str, dictionary,
                   examples, lda_model, sentence, history>>

\* lines 108-126: load the dictionary, build id2word, create the model
TlLoad ==
    /\ pc = "tl_load"
    /\ trace' = Append(trace, Load(LDA_DICTIONARY_FILEPATH))
    /\ IF Loadable(LDA_DICTIONARY_FILEPATH, "dictionary")
       THEN /\ dictionary' = disk[LDA_DICTIONARY_FILEPATH]
            /\ lda_model' = NewLdaModel
            /\ examples' = <<>>
            /\ i' = -1
            /\ pc' = "tl_loop"
            /\ UNCHANGED error
       ELSE /\ Propagate("train_lda", "LoadError")
            /\ UNCHANGED <<dictionary, lda_model, examples, i>>
    /\ UNCHANGED <<config, corpus, disk, args, articles_str, sentence, history>>

\* One pass of the for loop, lines 127-138.
TlIterate ==
    /\ pc = "tl_loop"
    /\ \/ \* the stream is exhausted
          /\ i + 1 >= corpus.windows
          /\ pc' = "tl_save"
          /\ UNCHANGED <<error, i, examples, lda_model>>
       \/ \* reading the corpus fails
          /\ Propagate("train_lda", "IOError")
          /\ UNCHANGED <<i, examples, lda_model>>
       \/ \* the next window, no update due or the update succeeds
          /\ i + 1 < corpus.windows
          /\ LET idx == i + 1
                 batch == Append(examples, idx + 1)
             IN  /\ i' = idx
                 /\ IF LdaFlushDue(batch)
                    THEN /\ lda_model' = update(lda_model, batch)
                         /\ examples' = <<>>
                    ELSE /\ examples' = batch
                         /\ UNCHANGED lda_model
                 /\ pc' = IF LdaCapReached(idx) THEN "tl_save" ELSE "tl_loop"
          /\ UNCHANGED error
       \/ \* the next window, and the update it triggers fails
          /\ i + 1 < corpus.windows
          /\ LdaFlushDue(Append(examples, i + 2))
          /\ i' = i + 1
          /\ examples' = Append(examples, i + 2)
          /\ Propagate("train_lda", "UpdateError")
          /\ UNCHANGED lda_model
    /\ UNCHANGED <<config, corpus, disk, args, articles_str, dictionary, sentence,
                   trace, history>>

\* lines 146-148, and the return to main()
TlSave ==
    /\ pc = "tl_save"
    /\ \/ /\ disk' = [disk EXCEPT ![ModelSavePath] = lda_model]
          /\ pc' = MainAfter("train_lda")
          /\ trace' = Append(trace, Return("train_lda"))
          /\ history' = history \cup {"train_lda"}
          /\ UNCHANGED error
       \/ /\ FailedWrite(ModelSavePath)
          /\ Propagate("train_lda", "IOError")
          /\ UNCHANGED <<trace, history>>
    /\ UNCHANGED <<config, corpus, args, i, articles_str, dictionary,
                   examples, lda_model, sentence>>

(***************************************************************************)
(* show_topics(), lines 150-164.                                           *)
(***************************************************************************)
\* if args.topics: show_topics(), lines 50-51
MainTopics ==
    /\ pc = "main_topics"
    /\ IF args.topics
       THEN /\ pc' = "st_run"
            /\ trace' = Append(trace, Call("show_topics"))
       ELSE /\ pc' = MainAfter("show_topics")
            /\ UNCHANGED trace
    /\ UNCHANGED <<config, corpus, disk, args, error, i, articles_str, dictionary,
                   examples, lda_model, sentence, history>>

\* lines 154-164: both loads, the query of the model, the print, the return
ShowTopics ==
    /\ pc = "st_run"
    /\ IF ~Loadable(LDA_DICTIONARY_FILEPATH, "dictionary")
       THEN /\ trace' = Append(trace, Load(LDA_DICTIONARY_FILEPATH))
            /\ Propagate("show_topics", "LoadError")
            /\ UNCHANGED <<dictionary, lda_model, history>>
       ELSE IF ~Loadable(LDA_MODEL_FILEPATH, "lda")
       THEN /\ trace' = trace \o <<Load(LDA_DICTIONARY_FILEPATH), Load(LDA_MODEL_FILEPATH)>>
            /\ dictionary' = disk[LDA_DICTIONARY_FILEPATH]
            /\ Propagate("show_topics", "LoadError")
            /\ UNCHANGED <<lda_model, history>>
       ELSE /\ trace' = trace \o <<Load(LDA_DICTIONARY_FILEPATH), Load(LDA_MODEL_FILEPATH),
                                   Query("show_topics"), PrintOut("topics"),
                                   Return("show_topics")>>
            /\ dictionary' = disk[LDA_DICTIONARY_FILEPATH]
            /\ lda_model' = disk[LDA_MODEL_FILEPATH]
            /\ history' = history \cup {"show_topics"}
            /\ pc' = MainAfter("show_topics")
            /\ UNCHANGED error
    /\ UNCHANGED <<config, corpus, disk, args, i, articles_str, examples, sentence>>

(***************************************************************************)
(* test_lda(sentence), lines 166-190.                                      *)
(***************************************************************************)
\* if args.test: test_lda(args.sentence), lines 52-53
MainTest ==
    /\ pc = "main_test"
    /\ IF args.test
       THEN /\ pc' = "te_check"
            /\ trace' = Append(trace, Call("test_lda"))
       ELSE /\ pc' = MainAfter("test_lda")
            /\ UNCHANGED trace
    /\ UNCHANGED <<config, corpus, disk, args, error, i, articles_str, dictionary,
                   examples, lda_model, sentence, history>>

\* lines 174-180: validate, decode and tokenize the sentence, compare its length
TestCheck ==
    /\ pc = "te_check"
    /\ IF SentenceMissing(args.sentence)
       THEN /\ Propagate("test_lda", "Missing or empty 'sentence' argument.")
            /\ UNCHANGED <<sentence, trace>>
       ELSE IF ~Decodable(args.sentence.bytes)
       THEN /\ Propagate("test_lda", "UnicodeDecodeError")
            /\ UNCHANGED <<sentence, trace>>
       ELSE LET tokens == Tokenize(args.sentence.bytes)
            IN  /\ sentence' = tokens
                /\ trace' = IF LengthMismatch(tokens)
                            THEN Append(trace, PrintOut("length mismatch"))
                            ELSE trace
                /\ pc' = "te_query"
                /\ UNCHANGED error
    /\ UNCHANGED <<config, corpus, disk, args, i, articles_str, dictionary,
                   examples, lda_model, history>>

\* lines 182-190: both loads, doc2bow, the query of the model, the print, the return
TestQuery ==
    /\ pc = "te_query"
    /\ IF ~Loadable(LDA_DICTIONARY_FILEPATH, "dictionary")
       THEN /\ trace' = Append(trace, Load(LDA_DICTIONARY_FILEPATH))
            /\ Propagate("test_lda", "LoadError")
            /\ UNCHANGED <<dictionary, lda_model, history>>
       ELSE IF ~Loadable(LDA_MODEL_FILEPATH, "lda")
       THEN /\ trace' = trace \o <<Load(LDA_DICTIONARY_FILEPATH), Load(LDA_MODEL_FILEPATH)>>
            /\ dictionary' = disk[LDA_DICTIONARY_FILEPATH]
            /\ Propagate("test_lda", "LoadError")
            /\ UNCHANGED <<lda_model, history>>
       ELSE /\ trace' = trace \o <<Load(LDA_DICTIONARY_FILEPATH), Load(LDA_MODEL_FILEPATH),
                                   Doc2Bow("test_lda"), Query("test_lda"),
                                   PrintOut("topics of sentence"), Return("test_lda")>>
            /\ dictionary' = disk[LDA_DICTIONARY_FILEPATH]
            /\ lda_model' = disk[LDA_MODEL_FILEPATH]
            /\ history' = history \cup {"test_lda"}
            /\ pc' = MainAfter("test_lda")
            /\ UNCHANGED error
    /\ UNCHANGED <<config, corpus, disk, args, i, articles_str, examples, sentence>>

\* lines 55-56, and the normal end of the process
MainHint ==
    /\ pc = "main_hint"
    /\ trace' = IF ~args.dict /\ ~args.train /\ ~args.topics /\ ~args.test
                THEN Append(trace, PrintOut("No option chosen"))
                ELSE trace
    /\ pc' = "exit"
    /\ UNCHANGED <<config, corpus, disk, args, error, i, articles_str, dictionary,
                   examples, lda_model, sentence, history>>

(***************************************************************************)
(* Specifications.                                                         *)
(***************************************************************************)
ConfigSpace(dictCounts, ldaCounts, articleBatches, windowBatches, sizes) ==
    [COUNT_EXAMPLES_FOR_DICTIONARY : dictCounts, COUNT_EXAMPLES_FOR_LDA : ldaCounts,
     update_every_n_articles : articleBatches, update_every_n_windows : windowBatches,
     LDA_WINDOW_SIZE : sizes]

EmptyDisk == [p \in Paths |-> Absent]

SavedDictionary == compactify(filter_tokens(add_documents(NewDictionary, <<1>>)))

SavedModels == {NewLdaModel, update(NewLdaModel, <<1>>)}

\* The files a run may find: none, a truncated one, one saved earlier.
DiskSpace ==
    [Paths -> {Absent, Corrupt}]
    \cup {[p \in Paths |-> IF p = LDA_DICTIONARY_FILEPATH THEN SavedDictionary ELSE m] :
             m \in {Absent, Corrupt} \cup SavedModels}

NoArgs == [dict |-> FALSE, train |-> FALSE, topics |-> FALSE, test |-> FALSE,
           sentence |-> None]

InitLocals ==
    /\ error = NoError
    /\ i = -1
    /\ articles_str = <<>>
    /\ dictionary = Unbound
    /\ examples = <<>>
    /\ lda_model = Unbound
    /\ sentence = <<>>
    /\ trace = <<>>
    /\ history = {}

\* The command line: any sequence of invocations, starting with neither file on disk.
Init ==
    /\ config \in ConfigSpace({MaxCount}, {MaxCount}, {MaxBatch}, {MaxBatch}, {MaxWindowSize})
    /\ corpus \in [articles : {0, MaxArticles}, windows : {0, 1, MaxWindows}]
    /\ disk = EmptyDisk
    /\ args = NoArgs
    /\ pc = "start"
    /\ InitLocals

Next ==
    \/ ParseArgs
    \/ MainDict \/ GdIterate \/ GdRemainder \/ GdFilter \/ GdSave
    \/ MainTrain \/ TlLoad \/ TlIterate \/ TlSave
    \/ MainTopics \/ ShowTopics
    \/ MainTest \/ TestCheck \/ TestQuery
    \/ MainHint

Spec == Init /\ [][Next]_vars

\* generate_dictionary() alone, for every stream length, cap and batch size.
InitDict ==
    /\ config \in ConfigSpace(0..MaxCount, {0}, 1..MaxBatch, {1}, {1})
    /\ corpus \in [articles : 0..MaxArticles, windows : {0}]
    /\ disk \in DiskSpace
    /\ args = [NoArgs EXCEPT !.dict = TRUE]
    /\ pc = "main_dict"
    /\ InitLocals

NextDict == MainDict \/ GdIterate \/ GdRemainder \/ GdFilter \/ GdSave

SpecDict == InitDict /\ [][NextDict]_vars

\* train_lda() alone, for every stream length, cap and batch size.
InitTrain ==
    /\ config \in ConfigSpace({0}, 0..MaxCount, {1}, 1..MaxBatch, {1})
    /\ corpus \in [articles : {0}, windows : 0..MaxWindows]
    /\ disk \in DiskSpace
    /\ args = [NoArgs EXCEPT !.train = TRUE]
    /\ pc = "main_train"
    /\ InitLocals

NextTrain == MainTrain \/ TlLoad \/ TlIterate \/ TlSave

SpecTrain == InitTrain /\ [][NextTrain]_vars

\* test_lda() alone, for every sentence and window size.
InitTest ==
    /\ config \in ConfigSpace({0}, {0}, {1}, {1}, 1..MaxWindowSize)
    /\ corpus = [articles |-> 0, windows |-> 0]
    /\ disk \in DiskSpace
    /\ \E s \in {None} \cup {Str(b) : b \in SeqsUpTo(Alphabet, MaxSentenceLen)} :
          args = [NoArgs EXCEPT !.test = TRUE, !.sentence = s]
    /\ pc = "main_test"
    /\ InitLocals

NextTest == MainTest \/ TestCheck \/ TestQuery

SpecTest == InitTest /\ [][NextTest]_vars

(***************************************************************************)
(* Vocabulary of the properties.                                           *)
(***************************************************************************)
RECURSIVE Flatten(_)
Flatten(batches) ==
    IF batches = <<>> THEN <<>> ELSE Head(batches) \o Flatten(Tail(batches))

\* The stream's first n items, in stream order.
FirstOfStream(n) == [k \in 1..n |-> k]

InBuilderLoop == pc \in {"gd_loop", "gd_rest"}
AfterBuilderLoop == pc \in {"gd_filter", "gd_save"}
BuilderReturned == "generate_dictionary" \in history
InTrainer == pc \in {"tl_loop", "tl_save"}
TrainerReturned == "train_lda" \in history

\* Articles taken from the stream, tokenized and appended to a batch so far.
ArticlesConsumed == Len(Flatten(dictionary.batches)) + Len(articles_str)

Floor(a, b) == a \div b
Ceil(a, b) == (a + b - 1) \div b

(***************************************************************************)
(* C1.  generate_dictionary consumes at most C+1 articles of the stream,   *)
(* C being COUNT_EXAMPLES_FOR_DICTIONARY.  The loop breaks on i > C with i *)
(* counting from 0, so it takes C+2 articles of a stream that long.        *)
(***************************************************************************)
C1_AtMostCapPlusOne ==
    InBuilderLoop => ArticlesConsumed <= COUNT_EXAMPLES_FOR_DICTIONARY + 1

(***************************************************************************)
(* C10.  Every article consumed is passed to add_documents exactly once    *)
(* and in stream order; the batches flushed inside the loop hold exactly   *)
(* update_every_n_articles token lists; a non-empty remainder is flushed   *)
(* once after the loop; filter, compaction and save come after all the     *)
(* additions.                                                              *)
(***************************************************************************)
C10_BatchesInOrder ==
    LET b == dictionary.batches
        n == update_every_n_articles
    IN  /\ InBuilderLoop =>
             /\ Flatten(b) \o articles_str = FirstOfStream(i + 1)
             /\ \A k \in 1..Len(b) : Len(b[k]) = n
             /\ Len(articles_str) < n
             /\ ~dictionary.filtered /\ ~dictionary.compacted
        /\ (AfterBuilderLoop \/ BuilderReturned) =>
             /\ Flatten(b) = FirstOfStream(i + 1)
             /\ Len(b) = Ceil(i + 1, n)
             /\ \A k \in 1..Len(b) : Len(b[k]) = IF k < Len(b) \/ (i + 1) % n = 0
                                                 THEN n ELSE (i + 1) % n
        /\ (pc = "gd_save" \/ BuilderReturned) =>
             dictionary.filtered /\ dictionary.compacted
        /\ BuilderReturned => disk[LDA_DICTIONARY_FILEPATH] = dictionary

C10_Witness ==
    /\ BuilderReturned
    /\ Len(dictionary.batches) >= 2
    /\ Len(dictionary.batches[Len(dictionary.batches)]) < update_every_n_articles
    /\ i + 1 < corpus.articles

(***************************************************************************)
(* C2.  With W windows in the stream, W not above the cap, and flush       *)
(* threshold F, train_lda has issued exactly ceil(W/F) update calls when   *)
(* it saves the model.                                                     *)
(***************************************************************************)
C2_CeilUpdates ==
    (pc = "tl_save" /\ corpus.windows <= COUNT_EXAMPLES_FOR_LDA) =>
        Len(lda_model.updates) = Ceil(corpus.windows, update_every_n_windows)

\* C2 as amended: exactly floor(W/F) update calls, the W mod F windows left in the
\* accumulator being passed to no update; the saved model is the one so updated.
C2_FloorUpdates ==
    /\ (pc = "tl_save" /\ corpus.windows <= COUNT_EXAMPLES_FOR_LDA) =>
          /\ Len(lda_model.updates) = Floor(corpus.windows, update_every_n_windows)
          /\ Len(examples) = corpus.windows % update_every_n_windows
    /\ (TrainerReturned /\ corpus.windows <= COUNT_EXAMPLES_FOR_LDA) =>
          /\ Len(lda_model.updates) = Floor(corpus.windows, update_every_n_windows)
          /\ disk[LDA_MODEL_FILEPATH] = lda_model

C2_Witness ==
    /\ TrainerReturned
    /\ corpus.windows <= COUNT_EXAMPLES_FOR_LDA
    /\ corpus.windows % update_every_n_windows # 0
    /\ Len(disk[LDA_MODEL_FILEPATH].updates) >= 1

Count(e) == Cardinality({k \in 1..Len(trace) : trace[k] = e})

SentenceGiven == ~args.sentence.isNone /\ args.sentence.bytes # <<>>

\* The number of tokens of byte string b after lower-casing, stripping and
\* splitting on single spaces: one more than the spaces between its first and
\* its last character that is not white space.
TokenCount(b) ==
    LET solid == {k \in 1..Len(b) : b[k] \notin Whitespace}
    IN  IF solid = {} THEN 1
        ELSE LET first == CHOOSE x \in solid : \A y \in solid : x <= y
                 last == CHOOSE x \in solid : \A y \in solid : x >= y
             IN  1 + Cardinality({k \in first..last : b[k] = Space})

MismatchesExpected ==
    IF TokenCount(args.sentence.bytes) = LDA_WINDOW_SIZE THEN 0 ELSE 1

TesterEnded == pc \in {"main_hint", "failed"}
TesterPastCheck == pc \in {"te_query", "main_hint", "failed"}
BothLoadable ==
    Loadable(LDA_DICTIONARY_FILEPATH, "dictionary") /\ Loadable(LDA_MODEL_FILEPATH, "lda")

LibraryCalls == {e \in Events : e[1] \in {"load", "doc2bow", "query"}}

(***************************************************************************)
(* C7.  test_lda called with no sentence or an empty one fails with the    *)
(* 'Missing or empty' error before it loads the vocabulary or the model:   *)
(* no load, no bag-of-words conversion and no model query in that run.     *)
(***************************************************************************)
C7_MissingSentenceFailsFirst ==
    ((args.sentence.isNone \/ args.sentence.bytes = <<>>) /\ TesterPastCheck) =>
        /\ pc = "failed"
        /\ error = "Missing or empty 'sentence' argument."
        /\ LibraryCalls = {}
        /\ dictionary = Unbound /\ lda_model = Unbound
        /\ trace = <<Call("test_lda")>>

C7_Witness ==
    /\ pc = "failed"
    /\ ~args.sentence.isNone /\ args.sentence.bytes = <<>>
    /\ BothLoadable

(***************************************************************************)
(* C9.  For every non-empty sentence, test_lda prints the length-mismatch  *)
(* message zero times when the token count equals LDA_WINDOW_SIZE and once *)
(* otherwise, and in both cases loads the artifacts, queries the model and *)
(* prints the result.                                                      *)
(***************************************************************************)
C9_WarnsAndCompletes ==
    (SentenceGiven /\ TesterEnded) =>
        /\ Count(PrintOut("length mismatch")) = MismatchesExpected
        /\ Count(Query("test_lda")) = 1
        /\ Count(PrintOut("topics of sentence")) = 1

\* C9 as amended: the same for every non-empty sentence that is valid UTF-8, the
\* query and the print happening when both artifacts load; an artifact that does
\* not load ends the run in the load error, after the message.  A sentence that
\* is no valid UTF-8 ends the run in the decode error, before the comparison.
C9_WarnsAndGoesOn ==
    /\ (SentenceGiven /\ Decodable(args.sentence.bytes) /\ TesterPastCheck) =>
          /\ Len(sentence) = TokenCount(args.sentence.bytes)
          /\ Count(PrintOut("length mismatch")) = MismatchesExpected
          /\ pc = "main_hint" =>
                /\ Count(Query("test_lda")) = 1
                /\ Count(PrintOut("topics of sentence")) = 1
                /\ Count(Doc2Bow("test_lda")) = 1
          /\ pc = "failed" =>
                /\ error = "LoadError"
                /\ ~BothLoadable
                /\ Count(Query("test_lda")) = 0
          /\ (TesterEnded /\ BothLoadable) => pc = "main_hint"
    /\ (SentenceGiven /\ ~Decodable(args.sentence.bytes) /\ TesterPastCheck) =>
          /\ pc = "failed"
          /\ error = "UnicodeDecodeError"
          /\ Count(PrintOut("length mismatch")) = 0

C9_Witness ==
    /\ pc = "main_hint"
    /\ Len(sentence) > LDA_WINDOW_SIZE
    /\ "" \in {sentence[k] : k \in 1..Len(sentence)}
    /\ Count(PrintOut("length mismatch")) = 1
    /\ Count(Query("test_lda")) = 1

(***************************************************************************)
(* Vocabulary of the properties about sequences of invocations.            *)
(***************************************************************************)
IsPrefix(a, b) == Len(a) <= Len(b) /\ a = SubSeq(b, 1, Len(a))

IsMainEvent(e) == e[1] \in {"call", "return"}

\* The calls and returns of the four operations, in the order they happened.
MainEvents == SelectSeq(trace, IsMainEvent)

RunOf(flag, op) == IF flag THEN <<Call(op), Return(op)>> ELSE <<>>

\* The flagged operations, each run once and to completion, in the fixed order.
FlaggedRuns ==
       RunOf(args.dict, "generate_dictionary") \o RunOf(args.train, "train_lda")
    \o RunOf(args.topics, "show_topics") \o RunOf(args.test, "test_lda")

NoFlags == ~args.dict /\ ~args.train /\ ~args.topics /\ ~args.test

HintPrinted == PrintOut("No option chosen") \in Events

ProcessEnded == pc \in {"exit", "failed"}

Queried == Query("show_topics") \in Events \/ Query("test_lda") \in Events

LastEvent == trace[Len(trace)]

(***************************************************************************)
(* C3.  Starting with neither artifact on disk: the Model Trainer updates  *)
(* or saves a model only after a Dictionary Builder run has completed its  *)
(* filter, compaction and save; the Topic Reporter and the Sentence Tester *)
(* query a model only after a Model Trainer run has applied at least one   *)
(* update call to it and saved it; an operation whose file is absent ends  *)
(* in a load error instead.                                                *)
(***************************************************************************)
C3_OnlyBuiltAndTrained ==
    /\ InTrainer =>
          /\ BuilderReturned
          /\ dictionary.kind = "dictionary"
          /\ dictionary.filtered /\ dictionary.compacted
    /\ disk[LDA_MODEL_FILEPATH].kind = "lda" => BuilderReturned /\ TrainerReturned
    /\ Queried =>
          /\ TrainerReturned
          /\ lda_model = disk[LDA_MODEL_FILEPATH]
          /\ lda_model.kind = "lda"
          /\ Len(lda_model.updates) >= 1
    /\ (trace # <<>> /\ LastEvent[1] = "load" /\ disk[LastEvent[2]].kind = "absent") =>
          pc = "failed" /\ error = "LoadError"

(***************************************************************************)
(* C5.  For every combination of --dict, --train, --topics, --test exactly *)
(* the flagged operations run, each once and to completion before the next *)
(* starts, in the order Dictionary Builder, Model Trainer, Topic Reporter, *)
(* Sentence Tester; with no flag no operation runs, the usage hint is      *)
(* printed and the process exits normally.                                 *)
(***************************************************************************)
C5_FlaggedOperationsAllRun ==
    ProcessEnded =>
        /\ MainEvents = FlaggedRuns
        /\ HintPrinted <=> NoFlags
        /\ NoFlags => pc = "exit"

\* C5 as amended: the operations started are flagged ones, in the fixed order, each
\* once and after the one before it has returned; a process that ends with no
\* exception has run exactly the flagged operations to completion; one that ends
\* with an exception ends inside a flagged operation and starts none of the later
\* ones; with no flag no operation runs, the hint is printed, the exit is normal.
C5_FlaggedOperationsInOrder ==
    /\ IsPrefix(MainEvents, FlaggedRuns)
    /\ pc = "exit" => MainEvents = FlaggedRuns /\ error = NoError
    /\ pc = "failed" =>
          /\ error # NoError
          /\ MainEvents # <<>>
          /\ MainEvents[Len(MainEvents)][1] = "call"
    /\ HintPrinted <=> (NoFlags /\ pc = "exit")
    /\ NoFlags => pc \in {"start", "main_dict", "main_train", "main_topics", "main_test",
                          "main_hint", "exit"}

C5_Witness ==
    /\ pc = "exit"
    /\ args.dict /\ args.train /\ args.topics /\ args.test
    /\ Len(MainEvents) = 8

(***************************************************************************)
(* C6.  The vocabulary file is written by the Dictionary Builder only and  *)
(* the model file by the Model Trainer only: every step of the Model       *)
(* Trainer leaves the vocabulary file as it is, every step of the          *)
(* Dictionary Builder leaves the model file as it is, every step of the    *)
(* Topic Reporter and of the Sentence Tester leaves both as they are.      *)
(***************************************************************************)
C6_OneWriterPerFile ==
    /\ [](/\ disk[LDA_DICTIONARY_FILEPATH].kind \in {"absent", "corrupt", "dictionary"}
          /\ disk[LDA_MODEL_FILEPATH].kind \in {"absent", "corrupt", "lda"})
    /\ [][/\ disk'[LDA_DICTIONARY_FILEPATH] # disk[LDA_DICTIONARY_FILEPATH]
                => pc \in {"gd_loop", "gd_rest", "gd_filter", "gd_save"}
          /\ disk'[LDA_MODEL_FILEPATH] # disk[LDA_MODEL_FILEPATH]
                => pc \in {"tl_load", "tl_loop", "tl_save"}]_vars

C6_Witness ==
    /\ disk[LDA_DICTIONARY_FILEPATH].kind = "dictionary"
    /\ disk[LDA_MODEL_FILEPATH].kind = "lda"
    /\ {"show_topics", "test_lda"} \subseteq history
    /\ pc = "tl_save"

(***************************************************************************)
(* C8.  No failure is caught: the run ends at the step that fails, no      *)
(* operation flagged later in the invocation runs and no artifact is       *)
(* written after the failure; a Model Trainer that fails during load or    *)
(* during an update leaves the model file as it was.                       *)
(***************************************************************************)
C8_FailuresEndTheRun ==
    /\ [](error # NoError => pc = "failed")
    /\ [][/\ (error # NoError /\ error' # NoError) => UNCHANGED <<trace, disk, history>>
          /\ (error = NoError /\ error' # NoError) =>
                /\ trace' \in {trace, Append(trace, Load(LDA_DICTIONARY_FILEPATH)),
                               trace \o <<Load(LDA_DICTIONARY_FILEPATH),
                                          Load(LDA_MODEL_FILEPATH)>>}
                /\ history' = history
                /\ pc \notin {"gd_save", "tl_save"} => disk' = disk
                /\ pc = "gd_save" =>
                      disk'[LDA_MODEL_FILEPATH] = disk[LDA_MODEL_FILEPATH]
                /\ pc = "tl_save" =>
                      disk'[LDA_DICTIONARY_FILEPATH] = disk[LDA_DICTIONARY_FILEPATH]
          /\ pc \in {"tl_load", "tl_loop"} =>
                disk'[LDA_MODEL_FILEPATH] = disk[LDA_MODEL_FILEPATH]]_vars

C8_Witness ==
    /\ pc = "failed"
    /\ error = "UpdateError"
    /\ args.topics /\ args.test
    /\ disk[LDA_MODEL_FILEPATH].kind = "lda"
    /\ MainEvents[Len(MainEvents)] = Call("train_lda")

====
